---- MODULE Spec2Model ----
(***************************************************************************)
(* EcoSnap: the live-scan scheduler (CameraView), the model handle         *)
(* (WasteClassifier.loadModel) and the category mapper                     *)
(* (WasteClassifier.mapLabelToWaste), as state machines.                   *)
(*                                                                         *)
(* Spec      CameraView driven by its parent, the browser's timers, the    *)
(*           camera and the inference promises; App.handleLiveResult is    *)
(*           the onResult sink.                                            *)
(*                                                                         *)
(* SpecLive  one live session of CameraView under fair scheduling of its   *)
(*           timers and inferences.                                        *)
(* SpecLoad  concurrent callers of WasteClassifier.loadModel.               *)
(* SpecMap   WasteClassifier.mapLabelToWaste applied to labels, over rule  *)
(*           tables drawn at the start.                                    *)
(* SpecPipeline  classifyElement / classify applied to prediction lists.   *)
(* SpecUpload    App: model start-up, single-shot upload through classify, *)
(*           the Upload button and Try Again.                              *)
(*                                                                         *)
(* Spec follows one CameraView instance from its first render to its       *)
(* unmount; its parent may change the isActive prop while it is mounted    *)
(* (App itself always passes true and unmounts instead).  A later mount is *)
(* a new instance with its own state and refs.  Timers and inferences of   *)
(* the instance outlive its unmount, as the browser keeps them.            *)
(*                                                                         *)
(* React is modelled at the granularity of a commit: a state update, the   *)
(* render it causes and the effects of that render are one step.  Timer    *)
(* callbacks and promise continuations read only refs and the values       *)
(* captured by their closure, so running one of them between a setState    *)
(* and its commit is the same as running it before the setState.           *)
(***************************************************************************)
EXTENDS Integers, Sequences, FiniteSets

\* ------------------------------------------------------------------ bounds

\* getUserMedia calls (startCamera runs) one CameraView instance may make.
MaxStreams == 2

\* processFrame chains that may be alive at once: every chain is started by
\* the [isStreaming, isActive] effect, which fires at most once per
\* startCamera resolution and once per activation.
MaxLoops == 2 * MaxStreams

\* Concurrent callers of loadModel, and load attempts they may start in all.
NumCallers == 3
MaxAttempts == 2

\* Rules in a rule table, and characters in a classifier label.
MaxRules == 2
MaxLabelLen == 2

\* --------------------------------------------------------------- constants

\* App.handleLiveResult: newResult.confidence > 0.2, in hundredths.
ConfThreshold == 20

\* processFrame: video.readyState >= 3 (HAVE_FUTURE_DATA).
HaveFutureData == 3

\* Confidences an inference may report, in hundredths: the empty-prediction
\* fallback (0), exactly the threshold, just above it, and a confident one.
Confs == {0, 20, 21, 90}

\* HTMLMediaElement.readyState values a frame source may report.
ReadyStates == {0, 2, 3, 4}

Null == [null |-> TRUE]

StreamIds == 1..MaxStreams
LoopIds == 1..MaxLoops

\* ------------------------------------------------------------------- state

VARIABLES
  phase,            \* CameraView instance: "new", "mounted", "gone" (unmounted)
  isActive,         \* prop isActive of the last render
  isStreaming,      \* useState isStreaming
  error,            \* useState error # null
  srcObject,        \* videoRef.current.srcObject: 0 (null) or a stream id
  requestRef,       \* requestRef.current: 0 (null) or the loop whose timer id it holds
  isProcessingRef,  \* isProcessingRef.current
  media,            \* per getUserMedia call: "none","pending","live","stopped","failed"
  loops,            \* per processFrame chain: its pending timer or pending inference
                    \* (stale: the inference was pending when stopCamera ran;
                    \*  old: the chain was started before the last stopCamera)
  result,           \* App: useState result (Null or a ClassificationResult)
  sink,             \* history: the last onResult call
  lateTimer,        \* history: a setTimeout was created while the session was not active
  caught,           \* history: flips each time processFrame's catch absorbs a failure
  model,            \* WasteClassifier.model # null
  isModelLoading,   \* WasteClassifier.isModelLoading
  pc,               \* per caller of loadModel: where its call is
  attempts,         \* history: load attempts started (entries of loadModel's try block)
  settled,          \* history: load attempts finished
  anyCall,          \* history: loadModel was called
  failedOnce,       \* history: a load attempt failed
  table,            \* WASTE_MAPPINGS
  predictions,      \* what model.classify returned: the ranked predictions
  argLabel,         \* the label given to mapLabelToWaste (that of the top prediction)
  argConfidence,    \* the confidence given to mapLabelToWaste (its probability)
  out,              \* what mapLabelToWaste of wasteClassifier.ts returned for them
  outApp,           \* what the copy of mapLabelToWaste in App.tsx returned for them
  outElement,       \* what classifyElement made of the predictions
  outClassify,      \* what classify of wasteClassifier.ts made of them
  outClassifyApp,   \* what the copy of classify in App.tsx made of them
  modelReady,       \* App: useState modelReady
  loadingError,     \* App: useState loadingError # null
  isProcessing,     \* App: useState isProcessing
  previewUrl,       \* App: useState previewUrl # null
  imageUrl,         \* the object URL of the classify call: "none", "open", "revoked"
  shot              \* the classify call of handleFileSelect: where it is, how it ended

liveVars == <<phase, isActive, isStreaming, error, srcObject, requestRef,
              isProcessingRef, media, loops, result, sink, lateTimer, caught>>

loadVars == <<model, isModelLoading, pc, attempts, settled, anyCall, failedOnce>>

mapVars == <<table, predictions, argLabel, argConfidence, out, outApp,
             outElement, outClassify, outClassifyApp>>

uploadVars == <<modelReady, loadingError, isProcessing, previewUrl, imageUrl, shot>>

\* The state of CameraView alone: liveVars without App's result.
cameraVars == <<phase, isActive, isStreaming, error, srcObject, requestRef,
                isProcessingRef, media, loops, sink, lateTimer, caught>>

vars == <<liveVars, loadVars, mapVars, uploadVars>>

\* The state as one value, so that the handlers compose as the code calls them.
World ==
  [phase |-> phase, isActive |-> isActive, isStreaming |-> isStreaming,
   error |-> error, srcObject |-> srcObject, requestRef |-> requestRef,
   isProcessingRef |-> isProcessingRef, media |-> media, loops |-> loops,
   result |-> result, sink |-> sink, lateTimer |-> lateTimer, caught |-> caught]

Commit(w) ==
  /\ phase' = w.phase
  /\ isActive' = w.isActive
  /\ isStreaming' = w.isStreaming
  /\ error' = w.error
  /\ srcObject' = w.srcObject
  /\ requestRef' = w.requestRef
  /\ isProcessingRef' = w.isProcessingRef
  /\ media' = w.media
  /\ loops' = w.loops
  /\ result' = w.result
  /\ sink' = w.sink
  /\ lateTimer' = w.lateTimer
  /\ caught' = w.caught
  /\ UNCHANGED <<loadVars, mapVars, uploadVars>>

\* A processFrame chain slot that holds nothing.
FreeLoop == [st |-> "none", isActive |-> FALSE, isStreaming |-> FALSE, stale |-> FALSE,
             old |-> FALSE]

\* The closure of one render: the isActive and isStreaming that processFrame
\* and scheduleNext of that render read.
Closure(a, s) == [isActive |-> a, isStreaming |-> s]

\* videoRef.current # null: the <video> element is rendered by a mounted
\* CameraView that has no error (the error branch returns before it).
VideoAttached(w) == w.phase = "mounted" /\ ~w.error

\* The readyState values the frame source can report in w.
ReadyStatesOf(w) ==
  IF VideoAttached(w) /\ w.srcObject # 0 /\ w.media[w.srcObject] = "live"
  THEN ReadyStates ELSE {0}

\* The session is active: the instance is mounted and its isActive prop is true.
SessionActive(w) == w.phase = "mounted" /\ w.isActive

FreeStreams(w) == {s \in StreamIds : w.media[s] = "none"}
FreeLoops(w) == {k \in LoopIds : w.loops[k].st = "none"}
Min(S) == CHOOSE x \in S : \A y \in S : x <= y

\* ------------------------------------------------------------- CameraView

\* startCamera up to its await: getUserMedia is called.
startCamera(w) ==
  [w EXCEPT !.media[Min(FreeStreams(w))] = "pending"]

\* stopCamera, with videoRef.current non-null or null.
stopCamera(w, attached) ==
  LET hasSrc == attached /\ w.srcObject # 0
      rr == w.requestRef
  IN [w EXCEPT
        !.media = IF hasSrc THEN [w.media EXCEPT ![w.srcObject] = "stopped"] ELSE @,
        !.srcObject = IF hasSrc THEN 0 ELSE @,
        !.isStreaming = FALSE,
        !.loops = [k \in LoopIds |->
                     IF rr # 0 /\ k = rr /\ w.loops[k].st = "timer"
                     THEN FreeLoop
                     ELSE IF w.loops[k].st = "infer"
                          THEN [w.loops[k] EXCEPT !.stale = TRUE, !.old = TRUE]
                          ELSE IF w.loops[k].st = "timer"
                               THEN [w.loops[k] EXCEPT !.old = TRUE]
                               ELSE w.loops[k]],
        !.requestRef = 0,
        !.isProcessingRef = FALSE]

\* scheduleNext of the render whose closure is cl, run by chain k.
scheduleNext(w, k, cl) ==
  IF cl.isActive /\ cl.isStreaming
  THEN [w EXCEPT !.requestRef = k,
                 !.loops[k] = [st |-> "timer", isActive |-> cl.isActive,
                               isStreaming |-> cl.isStreaming, stale |-> FALSE,
                               old |-> w.loops[k].old],
                 !.lateTimer = @ \/ ~SessionActive(w)]
  ELSE [w EXCEPT !.loops[k] = FreeLoop]

\* processFrame returning, without scheduleNext, when the frame is not ready.
processFrameNoReschedule(w, k, cl, readyState) ==
  IF ~cl.isActive \/ ~cl.isStreaming \/ w.isProcessingRef
  THEN scheduleNext(w, k, cl)
  ELSE IF VideoAttached(w) /\ readyState >= HaveFutureData
       THEN [w EXCEPT !.isProcessingRef = TRUE,
                      !.loops[k] = [st |-> "infer", isActive |-> cl.isActive,
                                    isStreaming |-> cl.isStreaming, stale |-> FALSE,
                                    old |-> w.loops[k].old]]
       ELSE [w EXCEPT !.loops[k] = FreeLoop]

\* processFrame up to its await (or to its end when no inference starts).
processFrame(w, k, cl, readyState) ==
  IF ~cl.isActive \/ ~cl.isStreaming \/ w.isProcessingRef
  THEN scheduleNext(w, k, cl)
  ELSE IF VideoAttached(w) /\ readyState >= HaveFutureData
       THEN [w EXCEPT !.isProcessingRef = TRUE,
                      !.loops[k] = [st |-> "infer", isActive |-> cl.isActive,
                                    isStreaming |-> cl.isStreaming, stale |-> FALSE,
                                    old |-> w.loops[k].old]]
       ELSE scheduleNext(w, k, cl)

\* handleLiveResult with the comparison >= in place of >.
handleLiveResultGE(w, confidence, late) ==
  [w EXCEPT
     !.result = IF confidence >= ConfThreshold
                THEN [confidence |-> confidence, late |-> late] ELSE @,
     !.sink = [flip |-> ~w.sink.flip, confidence |-> confidence, late |-> late,
               active |-> SessionActive(w)]]

\* App.handleLiveResult: the onResult sink.
handleLiveResult(w, confidence, late) ==
  [w EXCEPT
     !.result = IF confidence > ConfThreshold
                THEN [confidence |-> confidence, late |-> late] ELSE @,
     !.sink = [flip |-> ~w.sink.flip, confidence |-> confidence, late |-> late,
               active |-> SessionActive(w)]]

\* processFrame from the await on, without the finally block on the path
\* through the catch.
processFrameResumeNoFinally(w, k, outcome) ==
  LET cl == Closure(w.loops[k].isActive, w.loops[k].isStreaming)
      w1 == IF outcome >= 0
            THEN handleLiveResult(w, outcome, w.loops[k].stale)
            ELSE [w EXCEPT !.caught = ~@]
      w2 == [w1 EXCEPT !.isProcessingRef = IF outcome >= 0 THEN FALSE ELSE @]
  IN scheduleNext(w2, k, cl)

\* processFrame from the await on: classifyElement settled with a confidence
\* (a result) or with -1 (it threw, and the catch absorbs it).
processFrameResume(w, k, outcome) ==
  LET cl == Closure(w.loops[k].isActive, w.loops[k].isStreaming)
      w1 == IF outcome >= 0
            THEN handleLiveResult(w, outcome, w.loops[k].stale)
            ELSE [w EXCEPT !.caught = ~@]
      w2 == [w1 EXCEPT !.isProcessingRef = FALSE]
  IN scheduleNext(w2, k, cl)

\* The effect on [isStreaming, isActive] of a render with these values.
effectStreaming(w, a, s, readyState) ==
  IF s /\ a
  THEN processFrame(w, Min(FreeLoops(w)), Closure(a, s), readyState)
  ELSE w

\* -------------------------------------------------------- WasteClassifier

Callers == 1..NumCallers

\* The states of a call in which its load attempt is in flight.
InFlight == {"tfReady", "loading"}

\* loadModel's entry without the test of the model.
loadModelEntryNoModel(m, loading) ==
  IF loading THEN "return" ELSE "load"

\* loadModel's entry without the isModelLoading check.
loadModelEntryNoGuard(m, loading) ==
  IF m THEN "return" ELSE "load"

\* loadModel up to its try block: return at once, or start a load attempt.
loadModelEntry(m, loading) ==
  IF m THEN "return"
  ELSE IF loading THEN "return"
  ELSE "load"

\* loadModel's exit without the finally block on the failure path.
loadModelExitNoFinally(m, ok) ==
  [model |-> m \/ ok, isModelLoading |-> ~ok,
   pc |-> IF ok THEN "resolved" ELSE "rejected"]

\* loadModel's try/catch/finally once the attempt has its outcome: the model
\* is assigned on success, the catch rethrows, finally clears the flag.
loadModelExit(m, ok) ==
  [model |-> m \/ ok, isModelLoading |-> FALSE,
   pc |-> IF ok THEN "resolved" ELSE "rejected"]

\* ------------------------------------------------------- mapLabelToWaste

\* Strings are sequences of characters; "A" is the upper case of "a".
Chars == {"a", "A", "b"}
Lower == [c \in Chars |-> IF c = "A" THEN "a" ELSE c]

\* Keywords of rules: "a", "Ab", "b" and the empty string.
KwA == <<"a">>
KwAb == <<"A", "b">>
KwB == <<"b">>
KwEmpty == <<>>

\* Keyword lists of rules.
KeywordLists == {<<KwA>>, <<KwAb>>, <<KwB, KwA>>, <<KwEmpty, KwB>>}

RuleCategories == {"ORGANIC", "PLASTIC"}
Instructions == {"compost it", "rinse and recycle"}
UNKNOWN_INSTRUCTIONS == "check local guidelines"

\* The entries WASTE_MAPPINGS may hold, and the tables made of them.
Rules == [keywords : KeywordLists, category : RuleCategories, instructions : Instructions]
Tables == UNION {[1..n -> Rules] : n \in 0..MaxRules}

Labels == UNION {[1..n -> Chars] : n \in 0..MaxLabelLen}

\* Confidences given to mapLabelToWaste, in hundredths.
MapConfs == {20, 90}

\* String.prototype.toLowerCase.
toLowerCase(str) == [i \in 1..Len(str) |-> Lower[str[i]]]

\* String.prototype.includes: sub occurs in str at some offset.
includes(str, sub) ==
  \E i \in 0..(Len(str) - Len(sub)) : SubSeq(str, i + 1, i + Len(sub)) = sub

\* Array.prototype.find over a rule's keywords with the predicate
\* keyword => lowerLabel.includes(norm(keyword)): the first keyword that
\* satisfies it, or undefined.
find(keywords, lowerLabel, lowerKeywords) ==
  LET norm(kw) == IF lowerKeywords THEN toLowerCase(kw) ELSE kw
      hits == {i \in 1..Len(keywords) : includes(lowerLabel, norm(keywords[i]))}
  IN IF hits = {} THEN [found |-> FALSE, value |-> <<>>]
     ELSE [found |-> TRUE, value |-> keywords[Min(hits)]]

\* if (match): undefined and the empty string are falsy.
Truthy(match) == match.found /\ match.value # <<>>

\* getUnknownResult choosing its text by the confidence.
getUnknownResultByConfidence(label, confidence) ==
  [category |-> "UNKNOWN", confidence |-> confidence,
   disposalInstructions |-> IF confidence > ConfThreshold
                            THEN "compost it" ELSE UNKNOWN_INSTRUCTIONS]

\* getUnknownResult(label, confidence).
getUnknownResult(label, confidence) ==
  [category |-> "UNKNOWN", confidence |-> confidence,
   disposalInstructions |-> UNKNOWN_INSTRUCTIONS]

\* The for loop of mapLabelToWaste returning the last rule that matches
\* instead of the first.
scanMappingsLast(mappings, i, lowerLabel, label, confidence, lowerKeywords) ==
  LET hits == {k \in i..Len(mappings) :
                 Truthy(find(mappings[k].keywords, lowerLabel, lowerKeywords))}
      last == CHOOSE k \in hits : \A h \in hits : h <= k
  IN IF hits = {} THEN getUnknownResult(label, confidence)
     ELSE [category |-> mappings[last].category, confidence |-> confidence,
           disposalInstructions |-> mappings[last].instructions]

\* The for loop of mapLabelToWaste over the rules of mappings, from rule i on.
RECURSIVE scanMappings(_, _, _, _, _, _)
scanMappings(mappings, i, lowerLabel, label, confidence, lowerKeywords) ==
  IF i > Len(mappings) THEN getUnknownResult(label, confidence)
  ELSE IF Truthy(find(mappings[i].keywords, lowerLabel, lowerKeywords))
       THEN [category |-> mappings[i].category, confidence |-> confidence,
             disposalInstructions |-> mappings[i].instructions]
       ELSE scanMappings(mappings, i + 1, lowerLabel, label, confidence, lowerKeywords)

\* mapLabelToWaste when WASTE_MAPPINGS is mappings.
mapLabelToWasteWith(mappings, label, confidence) ==
  scanMappings(mappings, 1, toLowerCase(label), label, confidence, TRUE)

\* mapLabelToWaste without label.toLowerCase().
mapLabelToWasteNoLower(label, confidence) ==
  scanMappings(table, 1, label, label, confidence, TRUE)

\* mapLabelToWaste of services/wasteClassifier.ts.
mapLabelToWaste(label, confidence) ==
  mapLabelToWasteWith(table, label, confidence)

\* The copy of mapLabelToWaste in App.tsx: keywords are compared as written.
mapLabelToWasteApp(label, confidence) ==
  scanMappings(table, 1, toLowerCase(label), label, confidence, FALSE)

\* ------------------------------------------- classifyElement and classify

\* A prediction list that model.classify may return: undefined, or a list of
\* entries of a class name and a probability (in hundredths), best first.
Entries == [className : Labels, probability : MapConfs]
RunnerUp == [className |-> <<"a">>, probability |-> 10]
Undefined == [defined |-> FALSE, items |-> <<>>]
List(items) == [defined |-> TRUE, items |-> items]
PredictionLists ==
  {Undefined, List(<<>>)}
    \cup {List(<<e>>) : e \in Entries}
    \cup {List(<<e, RunnerUp>>) : e \in Entries}

\* The default label of getUnknownResult().
DefaultLabel == "Unknown Object"

\* What a call that throws gives its caller.
Threw == [threw |-> TRUE]

\* classifyElement testing !predictions but not predictions.length:
\* predictions[0] of an empty list is undefined, reading its className
\* throws, and the catch rethrows.
classifyElementNoLengthCheck(p) ==
  IF ~p.defined THEN getUnknownResult(DefaultLabel, 0)
  ELSE IF Len(p.items) = 0 THEN Threw
  ELSE mapLabelToWaste(p.items[1].className, p.items[1].probability)

\* classifyElement taking the last prediction in place of the first.
classifyElementLast(p) ==
  IF ~p.defined \/ Len(p.items) = 0
  THEN getUnknownResult(DefaultLabel, 0)
  ELSE mapLabelToWaste(p.items[Len(p.items)].className,
                       p.items[Len(p.items)].probability)

\* classifyElement from the predictions on.
classifyElement(p) ==
  IF ~p.defined \/ Len(p.items) = 0
  THEN getUnknownResult(DefaultLabel, 0)
  ELSE mapLabelToWaste(p.items[1].className, p.items[1].probability)

\* classify of services/wasteClassifier.ts: it resolves with the result of
\* classifyElement.
classify(p) == classifyElement(p)

\* The copy of classify in App.tsx, from the predictions on.
classifyApp(p) ==
  IF ~p.defined \/ Len(p.items) = 0
  THEN getUnknownResult(DefaultLabel, 0)
  ELSE mapLabelToWasteApp(p.items[1].className, p.items[1].probability)

\* ---------------------------------------------------------------- actions

\* The parent renders CameraView for the first time (App: mode 'live').
Mount ==
  /\ phase = "new"
  /\ \E a \in BOOLEAN :
       LET w1 == [World EXCEPT !.phase = "mounted", !.isActive = a]
       IN Commit(IF a THEN startCamera(w1) ELSE stopCamera(w1, TRUE))

\* The parent re-renders with isActive true: the cleanup of the previous
\* [isActive] effect, then startCamera, then the [isStreaming, isActive]
\* effect of this render (isStreaming still has its value from before the
\* cleanup's setIsStreaming(false)).
Activate ==
  /\ phase = "mounted" /\ ~isActive
  /\ FreeStreams(World) # {}
  /\ LET w1 == [World EXCEPT !.isActive = TRUE]
         w2 == startCamera(stopCamera(w1, VideoAttached(w1)))
     IN \E rs \in ReadyStatesOf(w2) :
          Commit(effectStreaming(w2, TRUE, isStreaming, rs))

\* The parent re-renders with isActive false: the cleanup, then the effect's
\* own stopCamera.
Deactivate ==
  /\ phase = "mounted" /\ isActive
  /\ LET w1 == [World EXCEPT !.isActive = FALSE]
         at == VideoAttached(w1)
     IN Commit(stopCamera(stopCamera(w1, at), at))

\* The parent stops rendering CameraView (App: the Upload button, which also
\* clears result).  The cleanup's stopCamera runs with videoRef.current still
\* set (React 16: cleanups run before the refs are detached) or already null
\* (React 17 and later: passive cleanups run after the refs are detached).
Unmount ==
  /\ phase = "mounted"
  /\ \E at \in {VideoAttached(World), FALSE} :
       Commit([stopCamera(World, at) EXCEPT !.phase = "gone", !.result = Null])

\* getUserMedia of call s resolves: startCamera's continuation, then the
\* render that setIsStreaming(true) causes and its effect.
AcquireResolve(s) ==
  /\ media[s] = "pending"
  /\ LET w1 == [World EXCEPT !.media[s] = "live"]
     IN IF VideoAttached(w1)
        THEN LET w2 == [w1 EXCEPT !.srcObject = s, !.isStreaming = TRUE]
             IN \E rs \in ReadyStatesOf(w2) :
                  Commit(IF ~isStreaming
                         THEN effectStreaming(w2, isActive, TRUE, rs)
                         ELSE w2)
        ELSE Commit(w1)

\* getUserMedia of call s rejects: setError.
AcquireReject(s) ==
  /\ media[s] = "pending"
  /\ Commit([World EXCEPT !.media[s] = "failed",
                          !.error = IF phase = "mounted" THEN TRUE ELSE @])

\* The timer of chain k fires: processFrame of the render that set it.
Tick(k) ==
  /\ loops[k].st = "timer"
  /\ \E rs \in ReadyStatesOf(World) :
       Commit(processFrame(World, k, Closure(loops[k].isActive, loops[k].isStreaming), rs))

\* classifyElement of chain k settles.
InferenceDone(k) ==
  /\ loops[k].st = "infer"
  /\ \E outcome \in Confs \cup {-1} :
       Commit(processFrameResume(World, k, outcome))

InitLive ==
  /\ phase = "new"
  /\ isActive = FALSE
  /\ isStreaming = FALSE
  /\ error = FALSE
  /\ srcObject = 0
  /\ requestRef = 0
  /\ isProcessingRef = FALSE
  /\ media = [s \in StreamIds |-> "none"]
  /\ loops = [k \in LoopIds |-> FreeLoop]
  /\ result = Null
  /\ sink = [flip |-> FALSE, confidence |-> 0, late |-> FALSE, active |-> FALSE]
  /\ lateTimer = FALSE
  /\ caught = FALSE

InitLoad ==
  /\ model = FALSE
  /\ isModelLoading = FALSE
  /\ pc = [c \in Callers |-> "idle"]
  /\ attempts = 0
  /\ settled = 0
  /\ anyCall = FALSE
  /\ failedOnce = FALSE

InitMap ==
  /\ table = <<>>
  /\ predictions = Undefined
  /\ argLabel = <<>>
  /\ argConfidence = 0
  /\ out = Null
  /\ outApp = Null
  /\ outElement = Null
  /\ outClassify = Null
  /\ outClassifyApp = Null

\* No classify call yet.
NoShot == [pc |-> "idle", copy |-> "none", outcome |-> "none", cause |-> "none",
           flip |-> FALSE]

InitApp ==
  /\ modelReady = FALSE
  /\ loadingError = FALSE
  /\ isProcessing = FALSE
  /\ previewUrl = FALSE
  /\ imageUrl = "none"
  /\ shot = NoShot

Init == InitLive /\ InitLoad /\ InitMap /\ InitApp

Next ==
  \/ Mount
  \/ Activate
  \/ Deactivate
  \/ Unmount
  \/ \E s \in StreamIds : AcquireResolve(s)
  \/ \E s \in StreamIds : AcquireReject(s)
  \/ \E k \in LoopIds : Tick(k)
  \/ \E k \in LoopIds : InferenceDone(k)

Spec == Init /\ [][Next]_vars

\* The timer of chain k fires while the video has a frame to give
\* (video.readyState >= 3).
ReadyTick(k) ==
  /\ loops[k].st = "timer"
  /\ \E rs \in ReadyStatesOf(World) :
       /\ rs >= HaveFutureData
       /\ Commit(processFrame(World, k, Closure(loops[k].isActive, loops[k].isStreaming), rs))

\* The live loop under its scheduling: a video with a live stream does not
\* withhold its frames for ever from the timers that the browser runs, and
\* of the inferences outstanding one settles.
Fairness ==
  /\ WF_vars(\E k \in LoopIds : ReadyTick(k))
  /\ WF_vars(\E k \in LoopIds : InferenceDone(k))

\* One live session of the instance: it is mounted, runs until isActive
\* becomes false or it is unmounted, and is not activated a second time.
NextLive ==
  \/ Mount
  \/ Deactivate
  \/ Unmount
  \/ \E s \in StreamIds : AcquireResolve(s)
  \/ \E s \in StreamIds : AcquireReject(s)
  \/ \E k \in LoopIds : Tick(k)
  \/ \E k \in LoopIds : InferenceDone(k)

SpecLive == Init /\ [][NextLive]_vars /\ Fairness

\* ------------------------------------------------------- loadModel callers

\* Caller c calls loadModel().
LoadModelCall(c) ==
  /\ pc[c] = "idle"
  /\ anyCall' = TRUE
  /\ IF loadModelEntry(model, isModelLoading) = "return"
     THEN /\ pc' = [pc EXCEPT ![c] = "resolved"]
          /\ UNCHANGED <<model, isModelLoading, attempts, settled, failedOnce>>
     ELSE /\ attempts < MaxAttempts
          /\ isModelLoading' = TRUE
          /\ attempts' = attempts + 1
          /\ pc' = [pc EXCEPT ![c] = "tfReady"]
          /\ UNCHANGED <<model, settled, failedOnce>>
  /\ UNCHANGED <<liveVars, mapVars, uploadVars>>

SettleLoad(c, ok) ==
  LET x == loadModelExit(model, ok)
  IN /\ model' = x.model
     /\ isModelLoading' = x.isModelLoading
     /\ pc' = [pc EXCEPT ![c] = x.pc]
     /\ settled' = settled + 1
     /\ failedOnce' = (failedOnce \/ ~ok)
     /\ UNCHANGED <<attempts, anyCall>>

\* tf.ready() of caller c's attempt settles: mobilenet.load is called, or
\* the attempt fails.
TfReady(c) ==
  /\ pc[c] = "tfReady"
  /\ \E ok \in BOOLEAN :
       IF ok
       THEN /\ pc' = [pc EXCEPT ![c] = "loading"]
            /\ UNCHANGED <<model, isModelLoading, attempts, settled, anyCall, failedOnce>>
       ELSE SettleLoad(c, FALSE)
  /\ UNCHANGED <<liveVars, mapVars, uploadVars>>

\* mobilenet.load() of caller c's attempt settles.
MobilenetLoad(c) ==
  /\ pc[c] = "loading"
  /\ \E ok \in BOOLEAN : SettleLoad(c, ok)
  /\ UNCHANGED <<liveVars, mapVars, uploadVars>>

\* Caller c has seen its call settle and may call again.
Return(c) ==
  /\ pc[c] \in {"resolved", "rejected"}
  /\ pc' = [pc EXCEPT ![c] = "idle"]
  /\ UNCHANGED <<model, isModelLoading, attempts, settled, anyCall, failedOnce>>
  /\ UNCHANGED <<liveVars, mapVars, uploadVars>>

NextLoad ==
  \/ \E c \in Callers : LoadModelCall(c)
  \/ \E c \in Callers : TfReady(c)
  \/ \E c \in Callers : MobilenetLoad(c)
  \/ \E c \in Callers : Return(c)

SpecLoad == Init /\ [][NextLoad]_vars

\* Every chain the effect starts finds a free slot.
LoopSlotsSuffice == FreeLoops(World) # {}

\* --------------------------------------------------- mapLabelToWaste calls

\* mapLabelToWaste is applied to the label and the confidence.
MapLabel ==
  /\ out' = mapLabelToWaste(argLabel, argConfidence)
  /\ outApp' = mapLabelToWasteApp(argLabel, argConfidence)
  /\ UNCHANGED <<table, predictions, argLabel, argConfidence,
                 outElement, outClassify, outClassifyApp, liveVars, loadVars, uploadVars>>

\* WASTE_MAPPINGS with the rules at i and j exchanged.
SwapRules(T, i, j) ==
  [k \in 1..Len(T) |-> IF k = i THEN T[j] ELSE IF k = j THEN T[i] ELSE T[k]]

\* A rule table, a label and a confidence; nothing computed yet.
InitTable ==
  /\ InitLive /\ InitLoad /\ InitApp
  /\ table \in Tables
  /\ argLabel \in Labels
  /\ argConfidence \in MapConfs
  /\ predictions = Undefined
  /\ out = Null
  /\ outApp = Null
  /\ outElement = Null
  /\ outClassify = Null
  /\ outClassifyApp = Null

NextMap == MapLabel

SpecMap == InitTable /\ [][NextMap]_vars

\* ------------------------------------- classifyElement and classify calls

\* The tables of at most one rule: classifyElement and classify hand the
\* table on to mapLabelToWaste, and these give both the matched and the
\* UNKNOWN case.
ShortTables == UNION {[1..n -> Rules] : n \in 0..1}

\* The class name and the probability of the top prediction; the empty
\* label and 0 when there is none.
TopLabel(p) == IF p.defined /\ Len(p.items) > 0 THEN p.items[1].className ELSE <<>>
TopConfidence(p) == IF p.defined /\ Len(p.items) > 0 THEN p.items[1].probability ELSE 0

\* model.classify has returned the predictions: classifyElement and classify
\* run from there on.  mapLabelToWaste is called, with the top entry, when
\* there is one.
ClassifyPredictions ==
  /\ outElement' = classifyElement(predictions)
  /\ outClassify' = classify(predictions)
  /\ outClassifyApp' = classifyApp(predictions)
  /\ out' = IF predictions.defined /\ Len(predictions.items) > 0
            THEN mapLabelToWaste(argLabel, argConfidence) ELSE out
  /\ outApp' = IF predictions.defined /\ Len(predictions.items) > 0
               THEN mapLabelToWasteApp(argLabel, argConfidence) ELSE outApp
  /\ UNCHANGED <<table, predictions, argLabel, argConfidence, liveVars, loadVars,
                 uploadVars>>

\* A rule table and a prediction list; nothing computed yet.
InitPredictions ==
  /\ InitLive /\ InitLoad /\ InitApp
  /\ table \in ShortTables
  /\ predictions \in PredictionLists
  /\ argLabel = TopLabel(predictions)
  /\ argConfidence = TopConfidence(predictions)
  /\ out = Null
  /\ outApp = Null
  /\ outElement = Null
  /\ outClassify = Null
  /\ outClassifyApp = Null

NextPipeline == ClassifyPredictions

SpecPipeline == InitPredictions /\ [][NextPipeline]_vars

\* ------------------------------------------- App: model start and upload

\* The calls of loadModel by App's initModel effect (React's StrictMode runs
\* the effect twice on mount), and the call made by a classification.
InitCallers == {1, 2}
ShotCaller == 3

\* handleFileSelect from its await on, without the catch.
handleFileSelectEndSilent(res, err, ok, value) ==
  [result |-> IF ok THEN value ELSE res,
   loadingError |-> err,
   isProcessing |-> FALSE]

\* handleFileSelect from its await on: classify resolved with value (ok) or
\* rejected; res and err are result and loadingError as they are.
handleFileSelectEnd(res, err, ok, value) ==
  [result |-> IF ok THEN value ELSE res,
   loadingError |-> IF ok THEN err ELSE TRUE,
   isProcessing |-> FALSE]

\* classify's exits with no revokeObjectURL in img.onerror.
classifyExitUrlNoOnerror(copy, exit, url) ==
  IF exit \in {"resolved", "caught"} THEN "revoked" ELSE url

\* The object URL after classify leaves by one of its exits: "resolved" (the
\* result is returned), "caught" (a catch block), "onerror" (img.onerror),
\* "early" (the copy in App.tsx throws before it creates the URL).
classifyExitUrl(copy, exit, url) ==
  IF exit \in {"resolved", "caught", "onerror"} THEN "revoked" ELSE url

\* The ensure step without the test of the model after loadModel returned.
classifyEnsureNoCheck(m, loading) ==
  IF m THEN "ready"
  ELSE IF loadModelEntry(m, loading) = "return" THEN "ready"
  ELSE "load"

\* The ensure step of classifyElement, up to its first await of a load
\* attempt: the model is set ("ready"), loadModel returns at once with the
\* model still null and the call throws ("throw"), or loadModel starts a
\* load attempt that the call awaits ("load").
classifyEnsure(m, loading) ==
  IF m THEN "ready"
  ELSE IF loadModelEntry(m, loading) = "return" THEN "throw"
  ELSE "load"

\* The ensure step of classify in App.tsx, which calls loadModel whether or
\* not the model is set, and tests the model when loadModel has returned.
classifyEnsureApp(m, loading) ==
  IF loadModelEntry(m, loading) = "load" THEN "load"
  ELSE IF m THEN "ready" ELSE "throw"

\* classify settles and handleFileSelect runs to its end.
EndShot(ok, value, cause, exit) ==
  LET h == handleFileSelectEnd(result, loadingError, ok, value)
  IN /\ result' = h.result
     /\ loadingError' = h.loadingError
     /\ isProcessing' = h.isProcessing
     /\ imageUrl' = classifyExitUrl(shot.copy, exit, imageUrl)
     /\ shot' = [shot EXCEPT !.pc = "idle",
                             !.outcome = IF ok THEN "resolved" ELSE "rejected",
                             !.cause = cause,
                             !.flip = ~@]

\* The classification's own loadModel call starts a load attempt.
StartShotLoad ==
  /\ attempts < MaxAttempts
  /\ pc' = [pc EXCEPT ![ShotCaller] = "tfReady"]
  /\ isModelLoading' = TRUE
  /\ attempts' = attempts + 1
  /\ anyCall' = TRUE
  /\ UNCHANGED <<model, settled, failedOnce>>

\* App's initModel effect calls loadModel: once on mount, and a second time
\* at once when the effect is run twice.
InitModel(c) ==
  /\ c \in InitCallers
  /\ c = 1 => ~anyCall
  /\ c = 2 => pc[1] = "tfReady"
  /\ LoadModelCall(c)

\* initModel from its await on.
InitModelSettle(c) ==
  /\ c \in InitCallers
  /\ pc[c] \in {"resolved", "rejected"}
  /\ pc' = [pc EXCEPT ![c] = "done"]
  /\ IF pc[c] = "resolved"
     THEN modelReady' = TRUE /\ loadingError' = FALSE
     ELSE loadingError' = TRUE /\ UNCHANGED modelReady
  /\ UNCHANGED <<model, isModelLoading, attempts, settled, anyCall, failedOnce>>
  /\ UNCHANGED <<isProcessing, previewUrl, imageUrl, shot, liveVars, mapVars>>

\* The user picks a file in the Dropzone (rendered when the model is ready,
\* no error is shown, and enabled when nothing is processing):
\* handleFileSelect up to its await, and classify up to its first await.
HandleFileSelect(copy) ==
  /\ modelReady /\ ~loadingError /\ ~isProcessing
  /\ shot.pc = "idle" /\ pc[ShotCaller] = "idle"
  /\ shot.copy \in {"none", copy}
  /\ previewUrl' = TRUE
  /\ UNCHANGED <<modelReady, cameraVars, mapVars>>
  /\ IF copy = "service" \/ classifyEnsureApp(model, isModelLoading) = "ready"
     THEN \* createObjectURL, img.src (the copy in App.tsx: loadModel returned)
          /\ result' = Null /\ loadingError' = FALSE /\ isProcessing' = TRUE
          /\ imageUrl' = "open"
          /\ shot' = [NoShot EXCEPT !.pc = "decoding", !.copy = copy, !.flip = shot.flip]
          /\ UNCHANGED loadVars
     ELSE IF classifyEnsureApp(model, isModelLoading) = "throw"
          THEN \* the copy in App.tsx: 'Model not initialized properly.'
               /\ result' = Null
               /\ loadingError' = handleFileSelectEnd(Null, FALSE, FALSE, Null).loadingError
               /\ isProcessing' = handleFileSelectEnd(Null, FALSE, FALSE, Null).isProcessing
               /\ imageUrl' = classifyExitUrl(copy, "early", "none")
               /\ shot' = [NoShot EXCEPT !.copy = copy, !.outcome = "rejected",
                                         !.cause = "model", !.flip = ~shot.flip]
               /\ UNCHANGED loadVars
          ELSE \* the copy in App.tsx awaits its own load attempt
               /\ result' = Null /\ loadingError' = FALSE /\ isProcessing' = TRUE
               /\ imageUrl' = "none"
               /\ shot' = [NoShot EXCEPT !.pc = "loadWait", !.copy = copy, !.flip = shot.flip]
               /\ StartShotLoad

\* The load attempt a classification started has settled: loadModel throws,
\* or the classification goes on (the copy in App.tsx to createObjectURL and
\* img.decode, classifyElement to model.classify).
ShotLoadSettled ==
  /\ shot.pc = "loadWait"
  /\ pc[ShotCaller] \in {"resolved", "rejected"}
  /\ pc' = [pc EXCEPT ![ShotCaller] = "idle"]
  /\ UNCHANGED <<model, isModelLoading, attempts, settled, anyCall, failedOnce>>
  /\ UNCHANGED <<modelReady, previewUrl, cameraVars, mapVars>>
  /\ IF pc[ShotCaller] = "rejected"
     THEN EndShot(FALSE, Null, "model", IF shot.copy = "app" THEN "early" ELSE "caught")
     ELSE /\ shot' = [shot EXCEPT !.pc = IF shot.copy = "app" THEN "decoding" ELSE "inferring"]
          /\ imageUrl' = IF shot.copy = "app" THEN "open" ELSE imageUrl
          /\ UNCHANGED <<result, loadingError, isProcessing>>

\* The image loads (img.onload, img.decode resolves) or does not
\* (img.onerror, img.decode rejects).
ImgSettle(ok) ==
  /\ shot.pc = "decoding"
  /\ UNCHANGED <<modelReady, previewUrl, cameraVars, mapVars>>
  /\ IF ~ok
     THEN /\ EndShot(FALSE, Null, "decode", IF shot.copy = "app" THEN "caught" ELSE "onerror")
          /\ UNCHANGED loadVars
     ELSE IF shot.copy = "app" \/ classifyEnsure(model, isModelLoading) = "ready"
          THEN \* model.classify is called
               /\ shot' = [shot EXCEPT !.pc = "inferring"]
               /\ UNCHANGED <<result, loadingError, isProcessing, imageUrl, loadVars>>
          ELSE IF classifyEnsure(model, isModelLoading) = "throw"
               THEN \* classifyElement: 'Model initialization failed'
                    /\ EndShot(FALSE, Null, "model", "caught")
                    /\ UNCHANGED loadVars
               ELSE /\ shot' = [shot EXCEPT !.pc = "loadWait"]
                    /\ UNCHANGED <<result, loadingError, isProcessing, imageUrl>>
                    /\ StartShotLoad

\* model.classify settles: with predictions, or it throws.
InferenceSettle ==
  /\ shot.pc = "inferring"
  /\ UNCHANGED <<modelReady, previewUrl, cameraVars, mapVars, loadVars>>
  /\ \/ EndShot(FALSE, Null, "inference", "caught")
     \/ \E p \in PredictionLists :
          EndShot(TRUE, IF shot.copy = "app" THEN classifyApp(p) ELSE classify(p),
                  "none", "resolved")

\* The Upload button of the mode switch.
UploadButton ==
  /\ anyCall
  /\ result' = Null /\ previewUrl' = FALSE /\ loadingError' = FALSE
  /\ UNCHANGED <<modelReady, isProcessing, imageUrl, shot, cameraVars, mapVars, loadVars>>

\* clearError, the Try Again button of the error panel: the error is
\* cleared, and the page is reloaded when the model is not ready.
ClearError ==
  /\ loadingError
  /\ IF modelReady
     THEN /\ loadingError' = FALSE
          /\ UNCHANGED <<modelReady, isProcessing, previewUrl, imageUrl, shot,
                         liveVars, mapVars, loadVars>>
     ELSE /\ modelReady' = FALSE /\ loadingError' = FALSE /\ isProcessing' = FALSE
          /\ previewUrl' = FALSE /\ imageUrl' = "none" /\ shot' = NoShot
          /\ result' = Null
          /\ model' = FALSE /\ isModelLoading' = FALSE
          /\ pc' = [c \in Callers |-> "idle"]
          /\ attempts' = 0 /\ settled' = 0 /\ anyCall' = FALSE /\ failedOnce' = FALSE
          /\ UNCHANGED <<cameraVars, mapVars>>

\* The page has loaded: a rule table, nothing called yet.
InitUpload ==
  /\ InitLive /\ InitLoad /\ InitApp
  /\ table \in ShortTables
  /\ predictions = Undefined
  /\ argLabel = <<>>
  /\ argConfidence = 0
  /\ out = Null
  /\ outApp = Null
  /\ outElement = Null
  /\ outClassify = Null
  /\ outClassifyApp = Null

NextUpload ==
  \/ \E c \in InitCallers : InitModel(c)
  \/ \E c \in InitCallers : InitModelSettle(c)
  \/ \E c \in Callers : TfReady(c)
  \/ \E c \in Callers : MobilenetLoad(c)
  \/ \E copy \in {"service", "app"} : HandleFileSelect(copy)
  \/ ShotLoadSettled
  \/ \E ok \in BOOLEAN : ImgSettle(ok)
  \/ InferenceSettle
  \/ UploadButton
  \/ ClearError

SpecUpload == InitUpload /\ [][NextUpload]_vars

\* ------------------------------------------------------------------ claims

Inflight == {k \in LoopIds : loops[k].st = "infer"}
PendingTicks == {k \in LoopIds : loops[k].st = "timer"}

\* C1: within one active live session at most one classifyElement inference is
\* outstanding: of the inferences started since the last stopCamera, no two
\* are pending together while the session is active and streaming.
C1_SingleFlightInSession ==
  (SessionActive(World) /\ isStreaming)
    => Cardinality({k \in Inflight : ~loops[k].stale}) <= 1

\* C2: an inference that was in flight when stopCamera ran is discarded when
\* it completes: onResult is never called with it and result never holds it.
C2_LateResultDiscarded ==
  /\ ~sink.late
  /\ (result = Null \/ ~result.late)

\* C3: after stopCamera has run for a session, no setTimeout for processFrame
\* is created until the next activation.
C3_NoTickAfterDeactivation == ~lateTimer

\* C4: no camera stream stays open while the session is inactive (isActive
\* false, or the CameraView unmounted).
C4_NoStreamOpenWhileInactive ==
  ~SessionActive(World) => \A s \in StreamIds : media[s] # "live"

\* C5: deactivating (isActive becoming false) a streaming session that has a
\* tick pending (and shows no camera error) leaves no pending tick, a null
\* timer handle, the attached stream stopped, the video source detached and
\* isStreaming false.
C5_DeactivationPostcondition ==
  [][(/\ SessionActive(World) /\ isStreaming /\ ~error /\ PendingTicks # {}
      /\ phase' = "mounted" /\ ~isActive')
     => (/\ \A k \in LoopIds : loops'[k].st # "timer"
         /\ requestRef' = 0
         /\ (srcObject # 0 => media'[srcObject] = "stopped")
         /\ srcObject' = 0
         /\ ~isStreaming')]_vars

\* C6: loadModel calls made while the model is Unloaded and before the first
\* load settles start exactly one load attempt, and at no time are two load
\* attempts in flight.
C6_OneLoadAttempt ==
  /\ Cardinality({c \in Callers : pc[c] \in InFlight}) <= 1
  /\ attempts - settled <= 1
  /\ (anyCall /\ settled = 0) => attempts = 1

\* Two calls were made before the first load settled: one is loading, the
\* other has returned.
C6_Witness ==
  /\ settled = 0 /\ attempts = 1
  /\ \E c, d \in Callers : pc[c] \in InFlight /\ pc[d] = "resolved"

\* C7: a loadModel call resolves only when the model is Ready.
C7_ResolvedImpliesReady ==
  \A c \in Callers : pc[c] = "resolved" => model

\* C8: a failed load is not cached: the attempt's caller gets a rejection
\* exactly when the attempt leaves the model unset, the handle is then
\* Unloaded (model null, isModelLoading false), and a loadModel call made in
\* the Unloaded state starts a new attempt.
C8_FailureNotCached ==
  /\ [][\A c \in Callers :
          (pc[c] \in InFlight /\ pc'[c] \notin InFlight)
            => /\ (pc'[c] = "rejected") = ~model'
               /\ (pc'[c] = "resolved") = model'
               /\ ~isModelLoading']_vars
  /\ [][\A c \in Callers :
          (pc[c] = "idle" /\ pc'[c] # "idle" /\ ~model /\ ~isModelLoading)
            => (pc'[c] = "tfReady" /\ isModelLoading')]_vars

\* After a failed attempt a later attempt succeeded.
C8_Witness ==
  failedOnce /\ model /\ attempts = 2

\* Keyword k is a case-insensitive substring of label L.
SubstringCI(k, L) ==
  \E start \in 1..(Len(L) - Len(k) + 1) :
    \A j \in 1..Len(k) : Lower[k[j]] = Lower[L[start + j - 1]]

RuleMatches(r, L) == \E i \in 1..Len(r.keywords) : SubstringCI(r.keywords[i], L)

\* The category of the first rule of T, in table order, that matches L.
FirstMatchCategory(T, L) ==
  LET M == {i \in 1..Len(T) : RuleMatches(T[i], L)}
  IN IF M = {} THEN "UNKNOWN" ELSE T[Min(M)].category

NoEmptyKeyword(T) ==
  \A i \in 1..Len(T) : \A j \in 1..Len(T[i].keywords) : T[i].keywords[j] # <<>>

LowercaseKeywords(T) ==
  \A i \in 1..Len(T) : \A j \in 1..Len(T[i].keywords) :
    T[i].keywords[j] = toLowerCase(T[i].keywords[j])

\* C10 as stated: for every label and every rule table, mapLabelToWaste
\* returns the category of the first rule, in table order, having a keyword
\* that is a case-insensitive substring of the label, and UNKNOWN if none has.
C10_FirstMatchAnyTable ==
  out # Null => out.category = FirstMatchCategory(table, argLabel)

\* C10 amended: the same for every rule table whose keywords are all
\* non-empty; for the copy in App.tsx, which compares keywords as written,
\* when they are also lower case.
C10_FirstMatchWins ==
  out # Null =>
    /\ NoEmptyKeyword(table) => out.category = FirstMatchCategory(table, argLabel)
    /\ (NoEmptyKeyword(table) /\ LowercaseKeywords(table))
         => outApp.category = FirstMatchCategory(table, argLabel)

\* Label "Ab" under a table whose first rule has keyword "a" and whose second
\* rule, of another category, has the longer keyword "Ab": the first wins.
C10_Witness ==
  /\ out # Null
  /\ argLabel = <<"A", "b">>
  /\ Len(table) = 2
  /\ table[1].keywords = <<KwA>> /\ table[2].keywords = <<KwAb>>
  /\ table[1].category # table[2].category
  /\ out.category = table[1].category

\* The pairs of positions of two rules of the table.
RulePairs == {p \in (1..Len(table)) \X (1..Len(table)) : p[1] < p[2]}

\* mapLabelToWaste's output for the label when the rules at p change places.
OutSwapped(p) ==
  mapLabelToWasteWith(SwapRules(table, p[1], p[2]), argLabel, argConfidence)

GuidanceFromTable(r, L, lower) ==
  LET M == {i \in 1..Len(table) : RuleMatches(table[i], L)}
  IN /\ IF r.category = "UNKNOWN"
        THEN r.disposalInstructions = UNKNOWN_INSTRUCTIONS
        ELSE \E i \in M : /\ r.category = table[i].category
                          /\ r.disposalInstructions = table[i].instructions
     /\ (NoEmptyKeyword(table) /\ (lower => LowercaseKeywords(table)))
          => IF M = {}
             THEN /\ r.category = "UNKNOWN"
                  /\ r.disposalInstructions = UNKNOWN_INSTRUCTIONS
             ELSE /\ r.category = table[Min(M)].category
                  /\ r.disposalInstructions = table[Min(M)].instructions

\* C12: the disposalInstructions of every result of mapLabelToWaste (of
\* either copy) are the instructions of the rule that matched, whose category
\* is returned, or the fixed fallback text when the category is UNKNOWN; they
\* do not depend on the confidence or on the label beyond which rule matches.
C12_GuidanceFromTable ==
  out # Null => /\ GuidanceFromTable(out, argLabel, FALSE)
                /\ GuidanceFromTable(outApp, argLabel, TRUE)

\* Two rules of the same category with different instructions, of which only
\* the second matches the label: the result carries the second's instructions.
C12_Witness ==
  /\ out # Null
  /\ Len(table) = 2
  /\ table[1].category = table[2].category
  /\ table[1].instructions # table[2].instructions
  /\ ~RuleMatches(table[1], argLabel) /\ RuleMatches(table[2], argLabel)
  /\ out.disposalInstructions = table[2].instructions
  /\ outApp.disposalInstructions = table[2].instructions

NonEmpty(p) == p.defined /\ Len(p.items) > 0

\* C13: for a non-empty prediction list the result of classifyElement, and of
\* classify (either copy), is mapLabelToWaste applied to the class name and
\* the probability of the first entry: its confidence is that probability,
\* matched or UNKNOWN, and a lower-ranked entry changes nothing.
C13_TopOnePassThrough ==
  (outElement # Null /\ NonEmpty(predictions)) =>
    LET top == predictions.items[1]
        alone == List(<<top>>)
    IN /\ outElement = mapLabelToWaste(top.className, top.probability)
       /\ outClassify = mapLabelToWaste(top.className, top.probability)
       /\ outClassifyApp = mapLabelToWasteApp(top.className, top.probability)
       /\ outElement # Threw
       /\ outElement.confidence = top.probability
       /\ outClassify.confidence = top.probability
       /\ outClassifyApp.confidence = top.probability
       /\ outElement = out /\ outClassifyApp = outApp
       /\ outElement = classifyElement(alone)
       /\ outClassifyApp = classifyApp(alone)
       /\ NoEmptyKeyword(table)
            => outElement.category = FirstMatchCategory(table, top.className)

\* The top entry "b" matches no rule and the runner-up "a" matches the rule
\* of the table: the result is UNKNOWN with the top entry's probability.
C13_Witness ==
  /\ outElement # Null
  /\ predictions = List(<<[className |-> <<"b">>, probability |-> 90], RunnerUp>>)
  /\ Len(table) = 1 /\ table[1].keywords = <<KwA>>
  /\ RuleMatches(table[1], RunnerUp.className)
  /\ outElement.category = "UNKNOWN" /\ outElement.confidence = 90
  /\ outClassify = outElement /\ outClassifyApp = outElement

\* The UNKNOWN fallback result with confidence 0.
Fallback ==
  [category |-> "UNKNOWN", confidence |-> 0,
   disposalInstructions |-> UNKNOWN_INSTRUCTIONS]

\* C14: when model.classify returns an empty list, or none, classifyElement
\* and classify (either copy) return the UNKNOWN fallback result with
\* confidence 0 and the fallback instructions, whatever the table holds,
\* without calling mapLabelToWaste and without throwing.
C14_EmptyPredictions ==
  (outElement # Null /\ ~NonEmpty(predictions)) =>
    /\ outElement = Fallback
    /\ outClassify = Fallback
    /\ outClassifyApp = Fallback
    /\ outElement # Threw /\ outClassify # Threw /\ outClassifyApp # Threw
    /\ out = Null /\ outApp = Null

\* An empty list under a table whose rule has the empty keyword, which every
\* label includes: the fallback result.
C14_Witness ==
  /\ outElement = Fallback /\ outClassifyApp = Fallback
  /\ predictions = List(<<>>)
  /\ Len(table) = 1 /\ table[1].keywords = <<KwEmpty, KwB>>

\* C15: when classifyElement fails on a live frame, processFrame's catch
\* absorbs it: onResult is not called and the displayed result stays, no
\* camera error is set, isProcessingRef is cleared, isStreaming and the
\* stream stay as they were, and the chain has its next tick pending.
C15_FailureAbsorbed ==
  [][caught' # caught
     => /\ sink' = sink /\ result' = result
        /\ error' = error
        /\ ~isProcessingRef'
        /\ isStreaming' = isStreaming /\ isActive' = isActive /\ phase' = phase
        /\ srcObject' = srcObject /\ media' = media
        /\ \E k \in LoopIds : loops[k].st = "infer" /\ loops'[k].st = "timer"]_vars

\* After an absorbed failure the session is active and streaming with its
\* stream live, no error, not busy, a tick pending, and no result shown.
C15_Witness ==
  /\ caught /\ SessionActive(World) /\ isStreaming /\ ~error
  /\ srcObject # 0 /\ media[srcObject] = "live"
  /\ ~isProcessingRef /\ PendingTicks # {} /\ Inflight = {}
  /\ result = Null /\ ~sink.flip

\* The getUserMedia call of the current activation: the last one made.
LastCall == CHOOSE s \in StreamIds :
              /\ media[s] # "none"
              /\ \A t \in StreamIds : media[t] # "none" => t <= s

\* C16: when the getUserMedia call of the active session rejects, the camera
\* error is set, isStreaming is false, no stream is attached, and no
\* processFrame chain runs: no tick is pending and no inference is in flight.
C16_AcquireFailure ==
  [][(/\ SessionActive(World)
      /\ \E s \in StreamIds : media[s] # "none"
      /\ media[LastCall] = "pending" /\ media'[LastCall] = "failed")
     => (/\ error'
         /\ ~isStreaming'
         /\ srcObject' = 0
         /\ PendingTicks' = {} /\ Inflight' = {})]_vars

\* C17: the object URL a classify call created is revoked by the time the
\* call settles, by whichever exit it leaves (result, decode failure, model
\* not ready, inference failure): no URL is open when no call is in progress.
C17_UrlRevoked ==
  /\ [](shot.pc = "idle" => imageUrl # "open")
  /\ [](imageUrl = "open" => isProcessing)
  /\ [][(shot'.flip # shot.flip /\ shot'.outcome # "none")
          => /\ imageUrl' # "open"
             /\ imageUrl = "open" => imageUrl' = "revoked"]_vars

\* A classify call of services/wasteClassifier.ts ended in img.onerror, with
\* its URL revoked.
C17_Witness ==
  /\ shot.copy = "service" /\ shot.pc = "idle"
  /\ shot.outcome = "rejected" /\ shot.cause = "decode"
  /\ imageUrl = "revoked"

\* C18: when a single-shot classification fails (decode, model not ready,
\* inference) classify rejects and handleFileSelect ends with loadingError
\* set, result null and isProcessing false; when it succeeds classify
\* resolves and handleFileSelect ends with result set and isProcessing false.
C18_NoSilentFailure ==
  /\ [](shot.pc # "idle" => isProcessing)
  /\ []((shot.outcome = "rejected") = (shot.cause # "none"))
  /\ [][(shot'.flip # shot.flip /\ shot'.outcome # "none")
          => /\ ~isProcessing'
             /\ shot'.pc = "idle"
             /\ IF shot'.cause # "none"
                THEN shot'.outcome = "rejected" /\ loadingError' /\ result' = Null
                ELSE shot'.outcome = "resolved" /\ result' # Null]_vars

\* A classification failed in model.classify: the error is shown, no result,
\* not processing.
C18_Witness ==
  /\ shot.outcome = "rejected" /\ shot.cause = "inference"
  /\ loadingError /\ result = Null /\ ~isProcessing

\* The chains started since the last stopCamera: those of the current session.
OwnTicks == {k \in PendingTicks : ~loops[k].old}
OwnInflight == {k \in Inflight : ~loops[k].old}

\* C19: within one live session a pending tick and an outstanding inference
\* never coexist, and when an inference of the session completes while the
\* session stays active (with a result, a failure or a result under the
\* threshold) isProcessingRef is false and exactly one tick is pending.
C19_Backpressure ==
  /\ []((SessionActive(World) /\ isStreaming) => (OwnTicks = {} \/ OwnInflight = {}))
  /\ [][(/\ SessionActive(World) /\ isStreaming
         /\ \E k \in OwnInflight : loops'[k].st # "infer")
        => (/\ ~isProcessingRef'
            /\ Cardinality({k \in LoopIds : loops'[k].st = "timer" /\ ~loops'[k].old}) = 1
            /\ Cardinality({k \in LoopIds : loops'[k].st = "timer"}) = 1)]_vars

\* C20: an inference is started only while the session is active and
\* streaming with a live stream attached and with isProcessingRef false
\* before; none is started while the session is inactive or deactivated.
C20_InferenceOnlyWhenActive ==
  [][\A k \in LoopIds :
       (loops[k].st # "infer" /\ loops'[k].st = "infer")
         => /\ phase' = "mounted" /\ isActive'
            /\ isStreaming'
            /\ srcObject' # 0 /\ media'[srcObject'] = "live"
            /\ ~isProcessingRef /\ isProcessingRef']_vars

\* The session is active and streaming and its video has a live stream.
FramesFlow ==
  /\ SessionActive(World) /\ isStreaming /\ ~error
  /\ srcObject # 0 /\ media[srcObject] = "live"

\* A step in which some chain starts an inference.
InferenceStarts ==
  \E k \in LoopIds : loops[k].st # "infer" /\ loops'[k].st = "infer"

\* C21: the scan loop never stalls.  While the session stays active and
\* streaming, a chain that ran a tick without starting an inference (frames
\* not ready, or busy) and a chain whose inference settled (with a result,
\* shown or rejected by the threshold, or with a failure) have their next
\* tick pending, so some chain is always alive; and while frames flow, an
\* inference is started again and again.
C21_NeverStalls ==
  /\ [][(/\ SessionActive(World) /\ isStreaming
         /\ SessionActive(World)' /\ isStreaming')
        => \A k \in LoopIds :
             /\ (loops[k].st = "timer" /\ loops'[k].st # "infer") => loops'[k].st = "timer"
             /\ (loops[k].st = "infer" /\ loops'[k] # loops[k])
                  => (loops'[k].st = "timer" /\ ~isProcessingRef')]_vars
  /\ []((SessionActive(World) /\ isStreaming) => (PendingTicks \cup Inflight) # {})
  /\ (FramesFlow /\ Inflight = {}) ~> (Inflight # {} \/ ~FramesFlow)
  /\ []<>(~FramesFlow) \/ []<><<InferenceStarts>>_vars

\* In an active streaming session an inference is outstanding after one
\* inference failed and a result at or below the threshold was rejected.
C21_Witness ==
  /\ FramesFlow /\ OwnInflight # {}
  /\ caught
  /\ sink.flip /\ sink.confidence <= ConfThreshold /\ result = Null

\* C22: classify and classifyElement call model.classify only when the model
\* is set.  A call that still finds no model after its ensure step, because
\* its own load attempt failed or because loadModel returned at once while
\* another attempt was in flight, rejects without calling model.classify and
\* leaves model and isModelLoading as they were; a call starts a load
\* attempt of its own only on an Unloaded handle.
C22_InferenceOnlyWhenReady ==
  /\ [](shot.pc = "inferring" => model)
  /\ [][(shot.pc # "inferring" /\ shot'.pc = "inferring")
          => (model /\ model' /\ isModelLoading' = isModelLoading)]_vars
  /\ [][(shot.pc # "loadWait" /\ shot'.pc = "loadWait")
          => (~model /\ ~isModelLoading /\ ~model' /\ isModelLoading')]_vars
  /\ [][(shot'.flip # shot.flip /\ shot'.cause = "model")
          => /\ shot'.outcome = "rejected" /\ loadingError'
             /\ shot.pc # "inferring" /\ shot'.pc = "idle"
             /\ ~model /\ ~model'
             /\ isModelLoading' = isModelLoading
             /\ isModelLoading = (shot.pc # "loadWait")]_vars

\* A classification by the copy in App.tsx arrived while a load attempt was
\* in flight: it was rejected, and the attempt is still in flight.
C22_Witness ==
  /\ shot.copy = "app" /\ shot.outcome = "rejected" /\ shot.cause = "model"
  /\ ~model /\ isModelLoading /\ loadingError

\* A classification by classifyElement was rejected after its own load
\* attempt failed: the handle is Unloaded again.
C22_WitnessOwnLoad ==
  /\ shot.copy = "service" /\ shot.outcome = "rejected" /\ shot.cause = "model"
  /\ ~model /\ ~isModelLoading /\ failedOnce

\* C23: over any activations and deactivations of the instance at most one
\* inference is outstanding at any time, those pending since before a
\* stopCamera included, and isProcessingRef is true whenever one is.
C23_OneInferenceOutstanding ==
  /\ Cardinality(Inflight) <= 1
  /\ Inflight # {} => isProcessingRef

\* C24: while the instance is mounted, every pending tick is the one whose
\* timer id requestRef holds, so at most one tick is pending and stopCamera
\* would cancel every pending tick.
C24_TicksRecorded ==
  phase = "mounted" =>
    /\ \A k \in PendingTicks : requestRef = k
    /\ Cardinality(PendingTicks) <= 1
    /\ \A k \in LoopIds : stopCamera(World, VideoAttached(World)).loops[k].st # "timer"

\* A step of the page that is not its reload.
SamePage == ~(anyCall /\ ~anyCall')

\* C25: the model handle is never both Ready and Loading; isModelLoading is
\* true exactly while a load attempt is in flight; and Ready is absorbing:
\* once the model is set no step clears it or starts a load attempt, so a
\* loadModel call on a Ready handle returns at once, and a classification
\* (its ensure step, its inference, its end) leaves the handle as it is.
C25_HandleInvariants ==
  /\ [](~(model /\ isModelLoading))
  /\ [](isModelLoading = (\E c \in Callers : pc[c] \in InFlight))
  /\ [](isModelLoading = (attempts - settled = 1))
  /\ [][(model /\ SamePage)
          => /\ model' /\ ~isModelLoading'
             /\ attempts' = attempts /\ settled' = settled
             /\ \A c \in Callers :
                  (pc[c] = "idle" /\ pc'[c] # "idle") => pc'[c] = "resolved"]_vars
  /\ [][(SamePage /\ (shot.pc = "inferring" \/ shot'.pc = "inferring"))
          => (model' = model /\ isModelLoading' = isModelLoading)]_vars

\* On a Ready handle a classification by the copy in App.tsx, which calls
\* loadModel first, has resolved with a result: no load attempt was started
\* after the one that set the model.
C25_Witness ==
  /\ model /\ ~isModelLoading /\ attempts = 1 /\ settled = 1
  /\ shot.copy = "app" /\ shot.outcome = "resolved" /\ result # Null

\* C26: modelReady true implies that the model is set, and a classification
\* is in progress, or has been made, only with modelReady true: the
\* application starts none before the model is usable.
C26_ReadinessSound ==
  /\ modelReady => model
  /\ (shot.pc # "idle" \/ shot.outcome # "none") => modelReady

====
